---- MODULE Spec2Model ----
(***************************************************************************)
(* moodycamel::ReaderWriterQueue (readerwriterqueue.h): a single-producer, *)
(* single-consumer queue built as a circular linked list of circular       *)
(* buffers ("blocks").                                                     *)
(*                                                                         *)
(* One producer thread runs inner_enqueue, one consumer thread runs        *)
(* try_dequeue.  Each action below is one step of one of the two threads:  *)
(* at most one access to a variable the other thread writes, together with *)
(* the thread-local computation around it, taken in program order (the     *)
(* fences of the source forbid the reorderings that would matter).         *)
(* Elements are the numbers 1, 2, 3, ... handed to successive enqueue      *)
(* calls, so every element is distinct and the producer's sequence is      *)
(* strictly increasing.                                                    *)
(***************************************************************************)
EXTENDS Integers, Sequences, FiniteSets, TLC

(* ------------------------------ bounds --------------------------------- *)
\* Blocks the ring may hold (growth is capped here).
MaxBlocks == 3
\* enqueue / try_enqueue calls made in one behaviour (values 1..MaxCalls).
MaxCalls == 7
\* Constructor arguments tried.
MaxSizes == {1, 2, 3}
\* Width of size_t in bits on the modelled machine.
WordBits == 8
\* Allocations that fail in one behaviour.
MaxAllocFailures == 1
\* Elements 1..MaxReentrant have constructors, assignments and destructors
\* that call the queue.
MaxReentrant == 1

(* --------------------------- program constants ------------------------- *)
\* nullptr
NullBlock == 0
\* sizeof(size_t) of the modelled machine.
SizeofSizeT == WordBits \div 8

Blocks == 1..MaxBlocks

(* ------------------------------ helpers -------------------------------- *)
RECURSIVE BitAnd(_, _)
BitAnd(a, b) ==
    IF a = 0 \/ b = 0 THEN 0
    ELSE (a % 2) * (b % 2) + 2 * BitAnd(a \div 2, b \div 2)

RECURSIVE BitOr(_, _)
BitOr(a, b) ==
    IF a = 0 THEN b
    ELSE IF b = 0 THEN a
    ELSE (IF (a % 2) + (b % 2) > 0 THEN 1 ELSE 0) + 2 * BitOr(a \div 2, b \div 2)

RECURSIVE Pow2(_)
Pow2(n) == IF n = 0 THEN 1 ELSE 2 * Pow2(n - 1)

Word == Pow2(WordBits)

ShiftRight(x, k) == IF k >= WordBits THEN 0 ELSE x \div Pow2(k)

\* The loop "for (i = 1; i < sizeof(size_t); i <<= 1) x |= x >> (i << 3)".
RECURSIVE CeilLoop(_, _)
CeilLoop(x, i) ==
    IF i < SizeofSizeT THEN CeilLoop(BitOr(x, ShiftRight(x, i * 8)), i * 2)
    ELSE x

ceilToPow2(x0) ==
    LET x1 == (x0 + Word - 1) % Word
        x2 == BitOr(x1, ShiftRight(x1, 1))
        x3 == BitOr(x2, ShiftRight(x2, 2))
        x4 == BitOr(x3, ShiftRight(x3, 4))
        x5 == CeilLoop(x4, 1)
    IN  (x5 + 1) % Word

\* Block::sizeMask()
sizeMask(sz) == sz - 1

\* (i + 1) & sizeMask(), a mutant that forgets the wrap-around first.
NextIndexNoWrap(i, sz) == i + 1
NextIndex(i, sz) == BitAnd(i + 1, sizeMask(sz))

\* A slot of raw storage: never constructed / destroyed ("raw"), under
\* construction ("ctor"), holding an element ("live"), moved-from but not
\* yet destroyed ("moved").
RawSlot == [st |-> "raw", v |-> 0]
LiveSlot(v) == [st |-> "live", v |-> v]

\* Block::Block(size): front(0), tail(0), next(nullptr), raw storage.
NewData(sz) == [i \in 1..sz |-> RawSlot]

(* ------------------------------ state ---------------------------------- *)
VARIABLES
    maxSize,            \* the constructor's argument
    nblocks,            \* Blocks allocated so far (ids 1..nblocks)
    bsize,              \* Block::size
    front,              \* Block::front
    tail,               \* Block::tail
    next,               \* Block::next
    data,               \* Block::data, slot i is data[b][i + 1]
    frontBlock,
    tailBlock,
    largestBlockSize,
    prod,               \* the producer's locals in inner_enqueue
    cons,               \* the consumer's locals in try_dequeue
    result,             \* the caller's variable passed to try_dequeue
    alive,              \* FALSE once ~ReaderWriterQueue has run
    freed,              \* Blocks deleted by the destructor, in order
    \* history (written, never read by the program)
    calls,              \* enqueue / try_enqueue calls started
    enqSeq,             \* values whose enqueue succeeded, in order
    deqSeq,             \* values returned by successful try_dequeue calls
    destroyed,          \* values whose destructor ran, in order
    hist,               \* per-call observations, see HistInit
    wrap                \* the blocking wrapper: semaphore and the callers' places

qvars == <<maxSize, nblocks, bsize, front, tail, next, data,
           frontBlock, tailBlock, largestBlockSize>>
vars == <<maxSize, nblocks, bsize, front, tail, next, data, frontBlock,
          tailBlock, largestBlockSize, prod, cons, result, alive, freed,
          calls, enqSeq, deqSeq, destroyed, hist, wrap>>

\* What the producer may write / what the consumer may write.
prodShared == <<nblocks, bsize, tail, next, data, tailBlock, largestBlockSize,
                front, frontBlock>>
consShared == <<front, frontBlock, data, result, tail, next, tailBlock,
                nblocks, largestBlockSize>>

\* Elements in the queue: enqueues that succeeded minus dequeues that did.
Resident == Len(enqSeq) - Len(deqSeq)

ProdIdle == [pc |-> "idle", mode |-> "none", elem |-> 0, tailBlock_ |-> 0,
             blockFront |-> 0, blockTail |-> 0, nextBlockTail |-> 0,
             tailBlockNext |-> 0, nextBlockFront |-> 0, newBlock |-> 0,
             ret |-> "none", startCount |-> 0,
             enqueuing |-> FALSE,    \* "bool enqueuing" (debug build)
             szBlock |-> 0,          \* size_approx: the block to read next
             szStop |-> 0,           \* size_approx: the block the walk ends with
             szSum |-> 0,            \* size_approx: the sum so far / returned
             endCount |-> 0]          \* size_approx: elements resident at its return

ConsIdle == [pc |-> "idle", tailBlockAtStart |-> 0, frontBlock_ |-> 0,
             blockTail |-> 0, blockFront |-> 0, nextBlock |-> 0,
             nextBlockFront |-> 0, nextBlockTail |-> 0, ret |-> "none",
             startCount |-> 0,
             dequeuing |-> FALSE,    \* "bool dequeuing" (debug build)
             ptrB |-> 0, ptrI |-> 0, \* block and slot peek's pointer refers to
             ptrV |-> 0,             \* the value read through that pointer
             szBlock |-> 0,          \* size_approx: the block to read next
             szStop |-> 0,           \* size_approx: the block the walk ends with
             szSum |-> 0,            \* size_approx: the sum so far / returned
             endCount |-> 0]          \* size_approx: elements resident at its return

HistInit == [wasEmpty |-> FALSE,     \* queue was empty at some instant of the running / last try_dequeue
             csolo |-> FALSE,        \* the producer was idle when the running / last try_dequeue began and has made no step since
             psolo |-> FALSE,        \* the consumer was idle when the running / last enqueue began and has made no step since
             overCap |-> FALSE,      \* some enqueue call started with Resident >= maxSize
             failed |-> FALSE,       \* some enqueue call returned false
             pdirty |-> FALSE,       \* the running / last enqueue call changed shared state
             cdirty |-> FALSE,       \* the running / last try_dequeue call changed shared state
             skipped |-> FALSE,      \* frontBlock left a block that still held an element
             grew |-> FALSE,         \* a try_enqueue call allocated or changed largestBlockSize
             psteps |-> 0,           \* steps the running / last enqueue call has taken
             csteps |-> 0,           \* steps the running / last consumer call has taken
             peeked |-> 0,           \* value the consumer's previous call, a peek, pointed to (else 0)
             allocFails |-> 0,       \* allocations that failed
             called |-> <<>>,        \* <<side, caller>> of the call made by the last step, if it was a call
             abort |-> <<>>,         \* the nested call the reentrancy guard stopped
             abortDirty |-> FALSE,   \* the stopped call changed the queue
             peak |-> -1]            \* the largest number of resident elements so far (recorded from 0 on, -1: not recorded)

\* The blocking wrapper is not part of the header under src/; it is modelled
\* from the specification: "Holds a counting semaphore S initialized to 0."
WrapIdle == [sem |-> 0,              \* the semaphore's count
             ppc |-> "idle",         \* "enq" while the wrapper's enqueue runs the inner one
             cpc |-> "idle",         \* wait_dequeue: "wait", "loop", "tried"
             returned |-> 0,         \* history: wait_dequeue calls that returned
             blocked |-> FALSE]      \* history: the running / last wait_dequeue found S at 0

\* "largestBlockSize(ceilToPow2(maxSize + 1))": one slot more than maxSize,
\* rounded up.  The mutant forgets the spare slot.
InitialBlockSizeNoSpare(maxSize_) == ceilToPow2(maxSize_ % Word)
InitialBlockSize(maxSize_) == ceilToPow2((maxSize_ + 1) % Word)

(* ReaderWriterQueue(maxSize), for an argument out of sizes; h is the    *)
(* history to start with.                                               *)
Constructed(sizes, h) ==
    /\ maxSize \in sizes
    /\ nblocks = 1
    /\ largestBlockSize = InitialBlockSize(maxSize)
    /\ bsize = [b \in Blocks |-> IF b = 1 THEN largestBlockSize ELSE 0]
    /\ front = [b \in Blocks |-> 0]
    /\ tail = [b \in Blocks |-> 0]
    /\ next = [b \in Blocks |-> IF b = 1 THEN 1 ELSE NullBlock]
    /\ data = [b \in Blocks |-> IF b = 1 THEN NewData(largestBlockSize) ELSE <<>>]
    /\ frontBlock = 1
    /\ tailBlock = 1
    /\ prod = ProdIdle
    /\ cons = ConsIdle
    /\ result = 0
    /\ alive = TRUE
    /\ freed = <<>>
    /\ calls = 0
    /\ enqSeq = <<>>
    /\ deqSeq = <<>>
    /\ destroyed = <<>>
    /\ hist = h
    /\ wrap = WrapIdle

Init == Constructed(MaxSizes, HistInit)

(* --------------------------- slot access ------------------------------- *)
InBlock(b, i) == b \in Blocks /\ (i + 1) \in DOMAIN data[b]
Slot(b, i) == IF InBlock(b, i) THEN data[b][i + 1] ELSE [st |-> "wild", v |-> 0]
SetSlot(b, i, s) == IF InBlock(b, i) THEN [data EXCEPT ![b][i + 1] = s] ELSE data

(* ------------------------- history bookkeeping ------------------------- *)
\* After a step of the producer / of the consumer.
PHist(h) == [h EXCEPT !.called = <<>>,
                      !.peak = IF @ >= 0 /\ Resident' > @ THEN Resident' ELSE @,
                      !.pdirty = @ \/ (prodShared' /= prodShared),
                      !.psteps = @ + 1,
                      !.grew = @ \/ (prod.mode = "CannotAlloc" /\ prod.pc /= "idle"
                                     /\ <<nblocks, largestBlockSize>>'
                                            /= <<nblocks, largestBlockSize>>),
                      !.csolo = FALSE,
                      !.wasEmpty = @ \/ (cons.pc /= "idle" /\ Resident' = 0)]
CHist(h) == [h EXCEPT !.called = <<>>,
                      !.peeked = IF cons.pc /= "idle" THEN @
                                 ELSE IF cons.ret = "ptr" THEN cons.ptrV ELSE 0,
                      !.cdirty = @ \/ (consShared' /= consShared),
                      !.csteps = @ + 1,
                      !.psolo = FALSE,
                      !.wasEmpty = @ \/ (cons'.pc /= "idle" /\ Resident' = 0)]

(* ============================ producer ================================= *)
(* inner_enqueue<canAlloc>(element)                                        *)

\* "nextBlockTail != blockFront": the tail block has room.  The mutant
\* forgets to test for a full block.
HasRoomAlways(nextBlockTail_, blockFront_) == TRUE
\* A second mutant tests the indices with >= instead.
HasRoomGe(nextBlockTail_, blockFront_) == nextBlockTail_ >= blockFront_
HasRoom(nextBlockTail_, blockFront_) == nextBlockTail_ /= blockFront_

\* "tailBlock_->next.load() != frontBlock": a free block lies ahead.  The
\* mutant moves into the next block whatever the consumer is doing there.
FreeBlockAheadAlways(tailBlockNext_, frontBlock_) == TRUE
FreeBlockAhead(tailBlockNext_, frontBlock_) == tailBlockNext_ /= frontBlock_

\* "canAlloc == CanAlloc".  The mutant lets try_enqueue grow the ring.
MayAllocAlways(mode) == TRUE
MayAlloc(mode) == mode = "CanAlloc"

\* Where a call on the queue is made from: by the thread of that side
\* between its calls, from inside a T constructor that an enqueue is running,
\* or from inside a T move assignment or destructor that try_dequeue is
\* running; "wrapper" is the call the blocking wrapper makes on its inner
\* queue.
\* The elements 1..MaxReentrant are of a type whose code calls the queue.
Callers == {"thread", "ctor", "dtor"}
ProdInElementCode ==
    /\ prod.pc \in {"e_A_ctor2", "e_B_ctor2", "e_C_ctor"}
    /\ prod.elem <= MaxReentrant
ConsInElementCode ==
    \/ /\ cons.pc \in {"d_A_move", "d_A_dtor"}
       /\ Slot(cons.frontBlock_, cons.blockFront).v <= MaxReentrant
    \/ /\ cons.pc \in {"d_B_move", "d_B_dtor"}
       /\ Slot(cons.nextBlock, cons.nextBlockFront).v <= MaxReentrant
EnqCalledFrom(ctx) ==
    \/ ctx = "thread" /\ prod.pc = "idle"
    \/ ctx = "wrapper" /\ prod.pc = "idle" /\ wrap.ppc = "idle"
    \/ ctx = "ctor" /\ ProdInElementCode
    \/ ctx = "dtor" /\ ConsInElementCode
DeqCalledFrom(ctx) ==
    \/ ctx = "thread" /\ cons.pc = "idle"
    \/ ctx = "wrapper" /\ cons.pc = "idle" /\ wrap.cpc = "loop"
    \/ ctx = "dtor" /\ ConsInElementCode
    \/ ctx = "ctor" /\ ProdInElementCode

\* "ReentrantGuard(bool& inSection)": "assert(!inSection)".  The mutant
\* checks nothing.
GuardPassesAlways(inSection) == TRUE
GuardPasses(inSection) == ~inSection

EnqReturn(r) ==
    prod' = [ProdIdle EXCEPT !.mode = prod.mode, !.elem = prod.elem,
                             !.startCount = prod.startCount, !.ret = r]

\* enqueue / try_enqueue is called; "tailBlock_ = tailBlock.load()".
E_Begin(mode, ctx) ==
    /\ alive /\ EnqCalledFrom(ctx) /\ calls < MaxCalls
    /\ GuardPasses(prod.enqueuing)
    /\ mode = "CanAlloc" => nblocks < MaxBlocks
    /\ calls' = calls + 1
    /\ prod' = [ProdIdle EXCEPT !.pc = "e_load", !.mode = mode,
                                !.elem = calls + 1, !.tailBlock_ = tailBlock,
                                !.startCount = Resident, !.enqueuing = TRUE]
    /\ wrap' = IF ctx = "wrapper" THEN [wrap EXCEPT !.ppc = "enq"] ELSE wrap
    /\ UNCHANGED <<qvars, cons, result, alive, freed, enqSeq, deqSeq, destroyed>>
    /\ hist' = [PHist([hist EXCEPT !.pdirty = FALSE, !.psteps = 0,
                                   !.psolo = (cons.pc = "idle"),
                                   !.overCap = @ \/ (Resident >= maxSize)])
                    EXCEPT !.called = <<"enq", ctx>>]

\* The mutant leaves the tail block one slot early, with two slots unused.
E_LoadIndicesLeaveEarly ==
    /\ prod.pc = "e_load"
    /\ LET b == prod.tailBlock_
           bf == front[b]
           bt == tail[b]
           nt == NextIndex(bt, bsize[b])
       IN  prod' = [prod EXCEPT !.blockFront = bf, !.blockTail = bt,
                                !.nextBlockTail = nt,
                                !.pc = IF HasRoom(nt, bf)
                                          /\ HasRoom(NextIndex(nt, bsize[b]), bf)
                                       THEN "e_A_ctor"
                                       ELSE "e_next"]
    /\ UNCHANGED <<wrap, qvars, cons, result, alive, freed, calls, enqSeq, deqSeq, destroyed>>
    /\ hist' = PHist(hist)

\* Loads front and tail of the tail block and picks the branch.
E_LoadIndices ==
    /\ prod.pc = "e_load"
    /\ LET b == prod.tailBlock_
           bf == front[b]
           bt == tail[b]
           nt == NextIndex(bt, bsize[b])
       IN  prod' = [prod EXCEPT !.blockFront = bf, !.blockTail = bt,
                                !.nextBlockTail = nt,
                                !.pc = IF HasRoom(nt, bf) THEN "e_A_ctor"
                                       ELSE "e_next"]
    /\ UNCHANGED <<wrap, qvars, cons, result, alive, freed, calls, enqSeq, deqSeq, destroyed>>
    /\ hist' = PHist(hist)

\* "new (location) T(...)" starts / ends: the slot is under construction
\* in between.
CtorBegin(b, i) == data' = SetSlot(b, i, [st |-> "ctor", v |-> prod.elem])
CtorEnd(b, i) == data' = SetSlot(b, i, LiveSlot(prod.elem))

\* Mutant of E_A_CtorBegin: the store of the new tail is not held back
\* until the element is constructed.
E_A_CtorBeginTailFirst ==
    /\ prod.pc = "e_A_ctor"
    /\ CtorBegin(prod.tailBlock_, prod.blockTail)
    /\ tail' = [tail EXCEPT ![prod.tailBlock_] = prod.nextBlockTail]
    /\ prod' = [prod EXCEPT !.pc = "e_A_ctor2"]
    /\ UNCHANGED <<wrap, maxSize, nblocks, bsize, front, next, frontBlock, tailBlock,
                   largestBlockSize, cons, result, alive, freed, calls, enqSeq,
                   deqSeq, destroyed>>
    /\ hist' = PHist(hist)

\* Case A: room in the tail block.
E_A_CtorBegin ==
    /\ prod.pc = "e_A_ctor"
    /\ CtorBegin(prod.tailBlock_, prod.blockTail)
    /\ prod' = [prod EXCEPT !.pc = "e_A_ctor2"]
    /\ UNCHANGED <<wrap, maxSize, nblocks, bsize, front, tail, next, frontBlock, tailBlock,
                   largestBlockSize, cons, result, alive, freed, calls, enqSeq,
                   deqSeq, destroyed>>
    /\ hist' = PHist(hist)

E_A_CtorEnd ==
    /\ prod.pc = "e_A_ctor2"
    /\ CtorEnd(prod.tailBlock_, prod.blockTail)
    /\ prod' = [prod EXCEPT !.pc = "e_A_tail"]
    /\ UNCHANGED <<wrap, maxSize, nblocks, bsize, front, tail, next, frontBlock, tailBlock,
                   largestBlockSize, cons, result, alive, freed, calls, enqSeq,
                   deqSeq, destroyed>>
    /\ hist' = PHist(hist)

\* "tailBlock_->tail = nextBlockTail; return true"
E_A_StoreTail ==
    /\ prod.pc = "e_A_tail"
    /\ tail' = [tail EXCEPT ![prod.tailBlock_] = prod.nextBlockTail]
    /\ enqSeq' = Append(enqSeq, prod.elem)
    /\ EnqReturn("true")
    /\ UNCHANGED <<wrap, maxSize, nblocks, bsize, front, next, data, frontBlock, tailBlock,
                   largestBlockSize, cons, result, alive, freed, calls, deqSeq,
                   destroyed>>
    /\ hist' = PHist(hist)

\* The mutant also moves into the next block when that block is empty, be it
\* the front block.
E_CheckNextReuseDrained ==
    /\ prod.pc = "e_next"
    /\ UNCHANGED <<wrap, qvars, cons, result, alive, freed, calls, enqSeq, deqSeq, destroyed>>
    /\ IF \/ FreeBlockAhead(next[prod.tailBlock_], frontBlock)
          \/ front[next[prod.tailBlock_]] = tail[next[prod.tailBlock_]]
       THEN /\ prod' = [prod EXCEPT !.pc = "e_B_load"]
            /\ hist' = PHist(hist)
       ELSE IF MayAlloc(prod.mode)
       THEN /\ nblocks < MaxBlocks
            /\ prod' = [prod EXCEPT !.pc = "e_C_alloc"]
            /\ hist' = PHist(hist)
       ELSE /\ EnqReturn("false")
            /\ hist' = PHist([hist EXCEPT !.failed = TRUE])

\* The tail block is full: "else if (tailBlock_->next.load() != frontBlock)",
\* "else if (canAlloc == CanAlloc)", else "return false".
E_CheckNext ==
    /\ prod.pc = "e_next"
    /\ UNCHANGED <<wrap, qvars, cons, result, alive, freed, calls, enqSeq, deqSeq, destroyed>>
    /\ IF FreeBlockAhead(next[prod.tailBlock_], frontBlock)
       THEN /\ prod' = [prod EXCEPT !.pc = "e_B_load"]
            /\ hist' = PHist(hist)
       ELSE IF MayAlloc(prod.mode)
       THEN /\ nblocks < MaxBlocks
            /\ prod' = [prod EXCEPT !.pc = "e_C_alloc"]
            /\ hist' = PHist(hist)
       ELSE /\ EnqReturn("false")
            /\ hist' = PHist([hist EXCEPT !.failed = TRUE])

\* The mutant moves tailBlock on as soon as it has read the next block,
\* before the element is written.
E_B_LoadAdvanceFirst ==
    /\ prod.pc = "e_B_load"
    /\ LET n == next[prod.tailBlock_]
       IN  /\ prod' = [prod EXCEPT !.tailBlockNext = n,
                                   !.nextBlockFront = front[n],
                                   !.nextBlockTail = tail[n],
                                   !.pc = "e_B_ctor"]
           /\ tailBlock' = n
    /\ UNCHANGED <<wrap, maxSize, nblocks, bsize, front, tail, next, data, frontBlock,
                   largestBlockSize, cons, result, alive, freed, calls, enqSeq,
                   deqSeq, destroyed>>
    /\ hist' = PHist(hist)

\* Case B: reads the next block and its indices.
E_B_Load ==
    /\ prod.pc = "e_B_load"
    /\ LET n == next[prod.tailBlock_]
       IN  prod' = [prod EXCEPT !.tailBlockNext = n,
                                !.nextBlockFront = front[n],
                                !.nextBlockTail = tail[n],
                                !.pc = "e_B_ctor"]
    /\ UNCHANGED <<wrap, qvars, cons, result, alive, freed, calls, enqSeq, deqSeq, destroyed>>
    /\ hist' = PHist(hist)

E_B_CtorBegin ==
    /\ prod.pc = "e_B_ctor"
    /\ CtorBegin(prod.tailBlockNext, prod.nextBlockTail)
    /\ prod' = [prod EXCEPT !.pc = "e_B_ctor2"]
    /\ UNCHANGED <<wrap, maxSize, nblocks, bsize, front, tail, next, frontBlock, tailBlock,
                   largestBlockSize, cons, result, alive, freed, calls, enqSeq,
                   deqSeq, destroyed>>
    /\ hist' = PHist(hist)

E_B_CtorEnd ==
    /\ prod.pc = "e_B_ctor2"
    /\ CtorEnd(prod.tailBlockNext, prod.nextBlockTail)
    /\ prod' = [prod EXCEPT !.pc = "e_B_tail"]
    /\ UNCHANGED <<wrap, maxSize, nblocks, bsize, front, tail, next, frontBlock, tailBlock,
                   largestBlockSize, cons, result, alive, freed, calls, enqSeq,
                   deqSeq, destroyed>>
    /\ hist' = PHist(hist)

\* The mutant rewinds the front of the block it reuses along with the tail.
E_B_StoreTailResetFront ==
    /\ prod.pc = "e_B_tail"
    /\ tail' = [tail EXCEPT ![prod.tailBlockNext] =
                    NextIndex(prod.nextBlockTail, bsize[prod.tailBlockNext])]
    /\ front' = [front EXCEPT ![prod.tailBlockNext] = 0]
    /\ prod' = [prod EXCEPT !.pc = "e_B_tailBlock"]
    /\ UNCHANGED <<wrap, maxSize, nblocks, bsize, next, data, frontBlock, tailBlock,
                   largestBlockSize, cons, result, alive, freed, calls, enqSeq,
                   deqSeq, destroyed>>
    /\ hist' = PHist(hist)

\* The mutant stores 1, as if the reused block always started at slot 0.
E_B_StoreTailOne ==
    /\ prod.pc = "e_B_tail"
    /\ tail' = [tail EXCEPT ![prod.tailBlockNext] = 1]
    /\ prod' = [prod EXCEPT !.pc = "e_B_tailBlock"]
    /\ UNCHANGED <<wrap, maxSize, nblocks, bsize, front, next, data, frontBlock, tailBlock,
                   largestBlockSize, cons, result, alive, freed, calls, enqSeq,
                   deqSeq, destroyed>>
    /\ hist' = PHist(hist)

\* "tailBlockNext->tail = (nextBlockTail + 1) & tailBlockNext->sizeMask()"
E_B_StoreTail ==
    /\ prod.pc = "e_B_tail"
    /\ tail' = [tail EXCEPT ![prod.tailBlockNext] =
                    NextIndex(prod.nextBlockTail, bsize[prod.tailBlockNext])]
    /\ prod' = [prod EXCEPT !.pc = "e_B_tailBlock"]
    /\ UNCHANGED <<wrap, maxSize, nblocks, bsize, front, next, data, frontBlock, tailBlock,
                   largestBlockSize, cons, result, alive, freed, calls, enqSeq,
                   deqSeq, destroyed>>
    /\ hist' = PHist(hist)

\* "tailBlock = tailBlockNext; return true"
E_B_StoreTailBlock ==
    /\ prod.pc = "e_B_tailBlock"
    /\ tailBlock' = prod.tailBlockNext
    /\ enqSeq' = Append(enqSeq, prod.elem)
    /\ EnqReturn("true")
    /\ UNCHANGED <<wrap, maxSize, nblocks, bsize, front, tail, next, data, frontBlock,
                   largestBlockSize, cons, result, alive, freed, calls, deqSeq,
                   destroyed>>
    /\ hist' = PHist(hist)

\* Case C: "largestBlockSize *= 2; Block* newBlock = new Block(largestBlockSize)".
\* operator new either returns the block or throws std::bad_alloc, which
\* leaves inner_enqueue and enqueue; the doubling has been done by then.
E_C_Alloc ==
    /\ prod.pc = "e_C_alloc"
    /\ nblocks < MaxBlocks
    /\ \E ok \in BOOLEAN :
         LET nb == nblocks + 1
             sz == (largestBlockSize * 2) % Word
         IN  /\ largestBlockSize' = sz
             /\ IF ok
                THEN /\ nblocks' = nb
                     /\ bsize' = [bsize EXCEPT ![nb] = sz]
                     /\ front' = [front EXCEPT ![nb] = 0]
                     /\ tail' = [tail EXCEPT ![nb] = 0]
                     /\ next' = [next EXCEPT ![nb] = NullBlock]
                     /\ data' = [data EXCEPT ![nb] = NewData(sz)]
                     /\ prod' = [prod EXCEPT !.newBlock = nb, !.pc = "e_C_ctor"]
                     /\ UNCHANGED <<wrap, maxSize, frontBlock, tailBlock, cons, result,
                                    alive, freed, calls, enqSeq, deqSeq, destroyed>>
                     /\ hist' = PHist(hist)
                ELSE /\ hist.allocFails < MaxAllocFailures
                     /\ EnqReturn("throw")
                     /\ UNCHANGED <<wrap, maxSize, nblocks, bsize, front, tail, next, data,
                                    frontBlock, tailBlock, cons, result, alive, freed,
                                    calls, enqSeq, deqSeq, destroyed>>
                     /\ hist' = PHist([hist EXCEPT !.allocFails = @ + 1])

\* The mutant constructs the element and leaves the new block's tail at 0.
E_C_ConstructTailForgotten ==
    /\ prod.pc = "e_C_ctor"
    /\ data' = SetSlot(prod.newBlock, 0, LiveSlot(prod.elem))
    /\ tail' = tail
    /\ prod' = [prod EXCEPT !.pc = "e_C_splice"]
    /\ UNCHANGED <<wrap, maxSize, nblocks, bsize, front, next, frontBlock, tailBlock,
                   largestBlockSize, cons, result, alive, freed, calls, enqSeq,
                   deqSeq, destroyed>>
    /\ hist' = PHist(hist)

\* "new (newBlock->data) T(...); newBlock->tail = 1" on the still private block.
E_C_Construct ==
    /\ prod.pc = "e_C_ctor"
    /\ data' = SetSlot(prod.newBlock, 0, LiveSlot(prod.elem))
    /\ tail' = [tail EXCEPT ![prod.newBlock] = 1]
    /\ prod' = [prod EXCEPT !.pc = "e_C_splice"]
    /\ UNCHANGED <<wrap, maxSize, nblocks, bsize, front, next, frontBlock, tailBlock,
                   largestBlockSize, cons, result, alive, freed, calls, enqSeq,
                   deqSeq, destroyed>>
    /\ hist' = PHist(hist)

\* The mutant links the new block back to the tail block instead of to the
\* block that came after it.
E_C_SpliceBackLink ==
    /\ prod.pc = "e_C_splice"
    /\ next' = [next EXCEPT ![prod.newBlock] = prod.tailBlock_,
                            ![prod.tailBlock_] = prod.newBlock]
    /\ prod' = [prod EXCEPT !.pc = "e_C_tailBlock"]
    /\ UNCHANGED <<wrap, maxSize, nblocks, bsize, front, tail, data, frontBlock, tailBlock,
                   largestBlockSize, cons, result, alive, freed, calls, enqSeq,
                   deqSeq, destroyed>>
    /\ hist' = PHist(hist)

\* "newBlock->next = tailBlock_->next.load(); tailBlock_->next = newBlock"
E_C_Splice ==
    /\ prod.pc = "e_C_splice"
    /\ next' = [next EXCEPT ![prod.newBlock] = next[prod.tailBlock_],
                            ![prod.tailBlock_] = prod.newBlock]
    /\ prod' = [prod EXCEPT !.pc = "e_C_tailBlock"]
    /\ UNCHANGED <<wrap, maxSize, nblocks, bsize, front, tail, data, frontBlock, tailBlock,
                   largestBlockSize, cons, result, alive, freed, calls, enqSeq,
                   deqSeq, destroyed>>
    /\ hist' = PHist(hist)

\* The mutant returns without publishing the new block.
E_C_StoreTailBlockForgotten ==
    /\ prod.pc = "e_C_tailBlock"
    /\ tailBlock' = tailBlock
    /\ enqSeq' = Append(enqSeq, prod.elem)
    /\ EnqReturn("true")
    /\ UNCHANGED <<wrap, maxSize, nblocks, bsize, front, tail, next, data, frontBlock,
                   largestBlockSize, cons, result, alive, freed, calls, deqSeq,
                   destroyed>>
    /\ hist' = PHist(hist)

\* "tailBlock = newBlock; return true"
E_C_StoreTailBlock ==
    /\ prod.pc = "e_C_tailBlock"
    /\ tailBlock' = prod.newBlock
    /\ enqSeq' = Append(enqSeq, prod.elem)
    /\ EnqReturn("true")
    /\ UNCHANGED <<wrap, maxSize, nblocks, bsize, front, tail, next, data, frontBlock,
                   largestBlockSize, cons, result, alive, freed, calls, deqSeq,
                   destroyed>>
    /\ hist' = PHist(hist)

(* ============================ consumer ================================= *)
(* try_dequeue(result)                                                     *)

\* "blockFront != blockTail": the front block holds an element.  The
\* mutant tests the indices with <= instead.
FrontNotEmptyLe(blockFront_, blockTail_) == blockFront_ <= blockTail_
FrontNotEmpty(blockFront_, blockTail_) == blockFront_ /= blockTail_

\* "frontBlock_ != tailBlockAtStart", decided on the sample of tailBlock
\* taken before the front block's indices were read.  The mutant compares
\* with tailBlock as it is when the test is made.
BlockAheadLate(c) == c.frontBlock_ /= tailBlock
BlockAhead(c) == c.frontBlock_ /= c.tailBlockAtStart

DeqReturn(r) ==
    cons' = [ConsIdle EXCEPT !.startCount = cons.startCount, !.ret = r]

\* try_dequeue is called; "Block* tailBlockAtStart = tailBlock".
D_Begin(ctx) ==
    /\ alive /\ DeqCalledFrom(ctx)
    /\ GuardPasses(cons.dequeuing)
    /\ cons' = [ConsIdle EXCEPT !.pc = "d_load", !.tailBlockAtStart = tailBlock,
                                !.startCount = Resident, !.dequeuing = TRUE]
    /\ wrap' = IF ctx = "wrapper" THEN [wrap EXCEPT !.cpc = "tried"] ELSE wrap
    /\ UNCHANGED <<qvars, prod, result, alive, freed, calls, enqSeq, deqSeq, destroyed>>
    /\ hist' = [CHist([hist EXCEPT !.cdirty = FALSE, !.csteps = 0,
                                   !.csolo = (prod.pc = "idle"),
                                   !.wasEmpty = (Resident = 0)])
                    EXCEPT !.called = <<"deq", ctx>>]

\* "frontBlock_ = frontBlock.load(); blockTail = frontBlock_->tail.load();
\*  blockFront = frontBlock_->front.load()"
D_LoadIndices ==
    /\ cons.pc = "d_load"
    /\ cons' = [cons EXCEPT !.frontBlock_ = frontBlock,
                            !.blockTail = tail[frontBlock],
                            !.blockFront = front[frontBlock],
                            !.pc = "d_branch"]
    /\ UNCHANGED <<wrap, qvars, prod, result, alive, freed, calls, enqSeq, deqSeq, destroyed>>
    /\ hist' = CHist(hist)

\* The mutant tests for a block ahead before it tests the front block.
D_BranchAheadFirst ==
    /\ cons.pc = "d_branch"
    /\ IF BlockAhead(cons)
       THEN cons' = [cons EXCEPT !.pc = "d_B_load"]
       ELSE IF FrontNotEmpty(cons.blockFront, cons.blockTail)
       THEN cons' = [cons EXCEPT !.pc = "d_A_move"]
       ELSE DeqReturn("false")
    /\ UNCHANGED <<wrap, qvars, prod, result, alive, freed, calls, enqSeq, deqSeq, destroyed>>
    /\ hist' = CHist(hist)

\* The mutant waits for the producer instead of returning false: it reloads
\* the indices until an element shows up.
D_BranchRetry ==
    /\ cons.pc = "d_branch"
    /\ IF FrontNotEmpty(cons.blockFront, cons.blockTail)
       THEN cons' = [cons EXCEPT !.pc = "d_A_move"]
       ELSE IF BlockAhead(cons)
       THEN cons' = [cons EXCEPT !.pc = "d_B_load"]
       ELSE cons' = [cons EXCEPT !.pc = "d_load"]
    /\ UNCHANGED <<wrap, qvars, prod, result, alive, freed, calls, enqSeq, deqSeq, destroyed>>
    /\ hist' = CHist(hist)

\* "if (blockFront != blockTail) ... else if (frontBlock_ != tailBlockAtStart)
\*  ... else return false"
D_Branch ==
    /\ cons.pc = "d_branch"
    /\ IF FrontNotEmpty(cons.blockFront, cons.blockTail)
       THEN cons' = [cons EXCEPT !.pc = "d_A_move"]
       ELSE IF BlockAhead(cons)
       THEN cons' = [cons EXCEPT !.pc = "d_B_load"]
       ELSE DeqReturn("false")
    /\ UNCHANGED <<wrap, qvars, prod, result, alive, freed, calls, enqSeq, deqSeq, destroyed>>
    /\ hist' = CHist(hist)

\* "result = std::move(*element)": reading a slot that holds no element
\* yields an arbitrary value.  The mutant moves from the slot after front.
MoveOutNextSlot(b, i) ==
    LET j == NextIndex(i, bsize[b])
    IN  /\ IF Slot(b, j).st = "live" THEN result' = Slot(b, j).v
           ELSE result' \in 0..MaxCalls
        /\ data' = SetSlot(b, j, [st |-> "moved", v |-> Slot(b, j).v])
MoveOut(b, i) ==
    /\ IF Slot(b, i).st = "live" THEN result' = Slot(b, i).v
       ELSE result' \in 0..MaxCalls
    /\ data' = SetSlot(b, i, [st |-> "moved", v |-> Slot(b, i).v])

\* "element->~T()".  The mutant leaves the moved-from element in its slot.
DestroyElementForgotten(b, i) ==
    /\ data' = data
    /\ destroyed' = destroyed
DestroyElement(b, i) ==
    /\ data' = SetSlot(b, i, RawSlot)
    /\ destroyed' = Append(destroyed, Slot(b, i).v)

\* Case A: the front block holds an element.
D_A_Move ==
    /\ cons.pc = "d_A_move"
    /\ MoveOut(cons.frontBlock_, cons.blockFront)
    /\ cons' = [cons EXCEPT !.pc = "d_A_dtor"]
    /\ UNCHANGED <<wrap, maxSize, nblocks, bsize, front, tail, next, frontBlock, tailBlock,
                   largestBlockSize, prod, alive, freed, calls, enqSeq, deqSeq,
                   destroyed>>
    /\ hist' = CHist(hist)

D_A_Destroy ==
    /\ cons.pc = "d_A_dtor"
    /\ DestroyElement(cons.frontBlock_, cons.blockFront)
    /\ cons' = [cons EXCEPT !.pc = "d_A_front"]
    /\ UNCHANGED <<wrap, maxSize, nblocks, bsize, front, tail, next, frontBlock, tailBlock,
                   largestBlockSize, prod, result, alive, freed, calls, enqSeq,
                   deqSeq>>
    /\ hist' = CHist(hist)

\* The mutant stores the index it loaded, not the advanced one.
D_A_StoreFrontNoAdvance ==
    /\ cons.pc = "d_A_front"
    /\ front' = [front EXCEPT ![cons.frontBlock_] = cons.blockFront]
    /\ deqSeq' = Append(deqSeq, result)
    /\ DeqReturn("true")
    /\ UNCHANGED <<wrap, maxSize, nblocks, bsize, tail, next, data, frontBlock, tailBlock,
                   largestBlockSize, prod, result, alive, freed, calls, enqSeq,
                   destroyed>>
    /\ hist' = CHist(hist)

\* "blockFront = (blockFront + 1) & sizeMask(); frontBlock_->front = blockFront;
\*  return true"
D_A_StoreFront ==
    /\ cons.pc = "d_A_front"
    /\ front' = [front EXCEPT ![cons.frontBlock_] =
                     NextIndex(cons.blockFront, bsize[cons.frontBlock_])]
    /\ deqSeq' = Append(deqSeq, result)
    /\ DeqReturn("true")
    /\ UNCHANGED <<wrap, maxSize, nblocks, bsize, tail, next, data, frontBlock, tailBlock,
                   largestBlockSize, prod, result, alive, freed, calls, enqSeq,
                   destroyed>>
    /\ hist' = CHist(hist)

\* Case B: "nextBlock = frontBlock_->next; nextBlockFront = nextBlock->front;
\*  nextBlockTail = nextBlock->tail"
D_B_Load ==
    /\ cons.pc = "d_B_load"
    /\ LET n == next[cons.frontBlock_]
       IN  cons' = [cons EXCEPT !.nextBlock = n,
                                !.nextBlockFront = front[n],
                                !.nextBlockTail = tail[n],
                                !.pc = "d_B_frontBlock"]
    /\ UNCHANGED <<wrap, qvars, prod, result, alive, freed, calls, enqSeq, deqSeq, destroyed>>
    /\ hist' = CHist(hist)

\* A block holds an element that was enqueued and not yet moved out.
HoldsElement(b) == \E i \in DOMAIN data[b] : data[b][i].st \in {"ctor", "live"}

\* "frontBlock = frontBlock_ = nextBlock"
D_B_StoreFrontBlock ==
    /\ cons.pc = "d_B_frontBlock"
    /\ frontBlock' = cons.nextBlock
    /\ cons' = [cons EXCEPT !.frontBlock_ = cons.nextBlock, !.pc = "d_B_move"]
    /\ UNCHANGED <<wrap, maxSize, nblocks, bsize, front, tail, next, data, tailBlock,
                   largestBlockSize, prod, result, alive, freed, calls, enqSeq,
                   deqSeq, destroyed>>
    /\ hist' = CHist([hist EXCEPT !.skipped = @ \/ HoldsElement(frontBlock)])

D_B_Move ==
    /\ cons.pc = "d_B_move"
    /\ MoveOut(cons.frontBlock_, cons.nextBlockFront)
    /\ cons' = [cons EXCEPT !.pc = "d_B_dtor"]
    /\ UNCHANGED <<wrap, maxSize, nblocks, bsize, front, tail, next, frontBlock, tailBlock,
                   largestBlockSize, prod, alive, freed, calls, enqSeq, deqSeq,
                   destroyed>>
    /\ hist' = CHist(hist)

D_B_Destroy ==
    /\ cons.pc = "d_B_dtor"
    /\ DestroyElement(cons.frontBlock_, cons.nextBlockFront)
    /\ cons' = [cons EXCEPT !.pc = "d_B_front"]
    /\ UNCHANGED <<wrap, maxSize, nblocks, bsize, front, tail, next, frontBlock, tailBlock,
                   largestBlockSize, prod, result, alive, freed, calls, enqSeq,
                   deqSeq>>
    /\ hist' = CHist(hist)

\* "nextBlockFront = (nextBlockFront + 1) & sizeMask();
\*  frontBlock_->front = nextBlockFront; return true"
D_B_StoreFront ==
    /\ cons.pc = "d_B_front"
    /\ front' = [front EXCEPT ![cons.frontBlock_] =
                     NextIndex(cons.nextBlockFront, bsize[cons.frontBlock_])]
    /\ deqSeq' = Append(deqSeq, result)
    /\ DeqReturn("true")
    /\ UNCHANGED <<wrap, maxSize, nblocks, bsize, tail, next, data, frontBlock, tailBlock,
                   largestBlockSize, prod, result, alive, freed, calls, enqSeq,
                   destroyed>>
    /\ hist' = CHist(hist)

(* ================================ peek ================================= *)
\* peek() is not part of the header under src/; it is modelled from the
\* specification: "It follows steps 1-2 of dequeue, then in Case A returns
\* &slot[blockFront]; in Case B, it advances frontBlock to next and returns
\* &next.slot[next.front]; in Case C, returns null."
PeekReturn(b, i) ==
    cons' = [ConsIdle EXCEPT !.startCount = cons.startCount, !.ret = "ptr",
                             !.ptrB = b, !.ptrI = i, !.ptrV = Slot(b, i).v]
PeekNull ==
    cons' = [ConsIdle EXCEPT !.startCount = cons.startCount, !.ret = "null"]

\* Step 1 of dequeue: the snapshot of tailBlock.
P_Begin ==
    /\ alive /\ cons.pc = "idle"
    /\ GuardPasses(cons.dequeuing)
    /\ cons' = [ConsIdle EXCEPT !.pc = "p_load", !.tailBlockAtStart = tailBlock,
                                !.startCount = Resident, !.dequeuing = TRUE]
    /\ UNCHANGED <<wrap, qvars, prod, result, alive, freed, calls, enqSeq, deqSeq, destroyed>>
    /\ hist' = CHist([hist EXCEPT !.cdirty = FALSE, !.csteps = 0,
                                  !.csolo = (prod.pc = "idle"),
                                  !.wasEmpty = (Resident = 0)])

\* Step 2 of dequeue: frontBlock and its indices.
P_LoadIndices ==
    /\ cons.pc = "p_load"
    /\ cons' = [cons EXCEPT !.frontBlock_ = frontBlock,
                            !.blockTail = tail[frontBlock],
                            !.blockFront = front[frontBlock],
                            !.pc = "p_branch"]
    /\ UNCHANGED <<wrap, qvars, prod, result, alive, freed, calls, enqSeq, deqSeq, destroyed>>
    /\ hist' = CHist(hist)

\* Case A returns the address of the front slot, case C returns null.
P_Branch ==
    /\ cons.pc = "p_branch"
    /\ IF FrontNotEmpty(cons.blockFront, cons.blockTail)
       THEN PeekReturn(cons.frontBlock_, cons.blockFront)
       ELSE IF BlockAhead(cons)
       THEN cons' = [cons EXCEPT !.pc = "p_B_load"]
       ELSE PeekNull
    /\ UNCHANGED <<wrap, qvars, prod, result, alive, freed, calls, enqSeq, deqSeq, destroyed>>
    /\ hist' = CHist(hist)

\* Case B: reads the next block and its front.
P_B_Load ==
    /\ cons.pc = "p_B_load"
    /\ LET nb == next[cons.frontBlock_]
       IN  cons' = [cons EXCEPT !.nextBlock = nb, !.nextBlockFront = front[nb],
                                !.nextBlockTail = tail[nb],
                                !.pc = "p_B_frontBlock"]
    /\ UNCHANGED <<wrap, qvars, prod, result, alive, freed, calls, enqSeq, deqSeq, destroyed>>
    /\ hist' = CHist(hist)

\* Case B: advances frontBlock and returns the address of the next block's
\* front slot.
P_B_StoreFrontBlock ==
    /\ cons.pc = "p_B_frontBlock"
    /\ frontBlock' = cons.nextBlock
    /\ PeekReturn(cons.nextBlock, cons.nextBlockFront)
    /\ UNCHANGED <<wrap, maxSize, nblocks, bsize, front, tail, next, data, tailBlock,
                   largestBlockSize, prod, result, alive, freed, calls, enqSeq,
                   deqSeq, destroyed>>
    /\ hist' = CHist([hist EXCEPT !.skipped = @ \/ HoldsElement(frontBlock)])

(* ============================ size_approx ============================== *)
\* size_approx() is not part of the header under src/; it is modelled from
\* the specification: "Computes the sum of (block.tail - block.front) mod
\* block.size over all blocks from the current frontBlock walking next until
\* tailBlock."  It is called by the thread t \in {"prod", "cons"} between the
\* calls of its own side.
Threads == {"prod", "cons"}
Thread(t) == IF t = "prod" THEN prod ELSE cons
SetThread(t, r) ==
    IF t = "prod" THEN prod' = r /\ UNCHANGED cons
                  ELSE cons' = r /\ UNCHANGED prod
THist(t, h) == IF t = "prod" THEN PHist(h) ELSE CHist(h)

\* The call: frontBlock and tailBlock are loaded.
S_Begin(t) ==
    /\ alive /\ Thread(t).pc = "idle"
    /\ SetThread(t, [(IF t = "prod" THEN ProdIdle ELSE ConsIdle)
                         EXCEPT !.pc = "s_read", !.szBlock = frontBlock,
                                !.szStop = tailBlock, !.szSum = 0,
                                !.startCount = Resident])
    /\ UNCHANGED <<wrap, qvars, result, alive, freed, calls, enqSeq, deqSeq, destroyed>>
    /\ hist' = THist(t, IF t = "prod" THEN [hist EXCEPT !.psteps = 0]
                                      ELSE [hist EXCEPT !.csteps = 0])

\* Adds (tail - front) mod size of the current block; after the tail block
\* the sum is returned.
S_Read(t) ==
    /\ Thread(t).pc = "s_read"
    /\ LET r == Thread(t)
           b == r.szBlock
           sum == r.szSum + ((tail[b] - front[b] + bsize[b]) % bsize[b])
       IN  IF b = r.szStop
           THEN SetThread(t, [(IF t = "prod" THEN ProdIdle ELSE ConsIdle)
                                 EXCEPT !.ret = "size", !.szSum = sum,
                                        !.startCount = r.startCount,
                                        !.endCount = Resident])
           ELSE SetThread(t, [r EXCEPT !.szSum = sum, !.pc = "s_next"])
    /\ UNCHANGED <<wrap, qvars, result, alive, freed, calls, enqSeq, deqSeq, destroyed>>
    /\ hist' = THist(t, hist)

\* Walks to the next block.
S_Next(t) ==
    /\ Thread(t).pc = "s_next"
    /\ SetThread(t, [Thread(t) EXCEPT !.szBlock = next[Thread(t).szBlock],
                                      !.pc = "s_read"])
    /\ UNCHANGED <<wrap, qvars, result, alive, freed, calls, enqSeq, deqSeq, destroyed>>
    /\ hist' = THist(t, hist)

(* ========================== blocking wrapper =========================== *)
\* "Every successful enqueue / try_enqueue on the inner queue is followed by
\* S.signal()."
B_AfterEnqueue ==
    /\ wrap.ppc = "enq" /\ prod.pc = "idle"
    /\ wrap' = [wrap EXCEPT !.ppc = "idle",
                            !.sem = IF prod.ret = "true" THEN @ + 1 ELSE @]
    /\ UNCHANGED <<qvars, prod, cons, result, alive, freed, calls, enqSeq, deqSeq,
                   destroyed, hist>>

\* wait_dequeue(out) is called.
W_Call ==
    /\ alive /\ wrap.cpc = "idle" /\ cons.pc = "idle"
    /\ wrap' = [wrap EXCEPT !.cpc = "wait", !.blocked = (wrap.sem = 0)]
    /\ UNCHANGED <<qvars, prod, cons, result, alive, freed, calls, enqSeq, deqSeq,
                   destroyed, hist>>

\* "calls S.wait()": returns once the count is positive, taking one.
W_Wait ==
    /\ wrap.cpc = "wait" /\ wrap.sem > 0
    /\ wrap' = [wrap EXCEPT !.cpc = "loop", !.sem = @ - 1]
    /\ UNCHANGED <<qvars, prod, cons, result, alive, freed, calls, enqSeq, deqSeq,
                   destroyed, hist>>

\* "then loops try_dequeue on the inner queue until it succeeds".
W_Check ==
    /\ wrap.cpc = "tried" /\ cons.pc = "idle"
    /\ wrap' = IF cons.ret = "true"
               THEN [wrap EXCEPT !.cpc = "idle", !.returned = @ + 1]
               ELSE [wrap EXCEPT !.cpc = "loop"]
    /\ UNCHANGED <<qvars, prod, cons, result, alive, freed, calls, enqSeq, deqSeq,
                   destroyed, hist>>

(* ========================= reentrancy guard ============================ *)
\* A call of side \in {"enq", "deq"} made from element code finds the flag of
\* its side set: "assert(!inSection)" fails and the program is aborted, the
\* call having done nothing else.
ReentrantAbort(side, ctx) ==
    /\ alive /\ ctx /= "thread"
    /\ IF side = "enq" THEN EnqCalledFrom(ctx) /\ ~GuardPasses(prod.enqueuing)
                        ELSE DeqCalledFrom(ctx) /\ ~GuardPasses(cons.dequeuing)
    /\ prod' = [prod EXCEPT !.pc = "aborted"]
    /\ cons' = [cons EXCEPT !.pc = "aborted"]
    /\ UNCHANGED <<wrap, qvars, result, alive, freed, calls, enqSeq, deqSeq, destroyed>>
    /\ hist' = [hist EXCEPT !.abort = <<side, ctx>>, !.called = <<>>,
                            !.abortDirty = (prodShared' /= prodShared
                                            \/ consShared' /= consShared)]

(* ============================ destructor =============================== *)
(* ~ReaderWriterQueue(): runs with no enqueue or dequeue in progress.      *)

\* "for (i = blockFront; i != blockTail; i = (i + 1) & sizeMask())
\*      element->~T()": the values destroyed in one block, in order.
RECURSIVE DestroyRange(_, _, _)
DestroyRange(b, i, blockTail_) ==
    IF i = blockTail_ THEN <<>>
    ELSE <<Slot(b, i).v>> \o DestroyRange(b, NextIndex(i, bsize[b]), blockTail_)

\* "while (block != tailBlock_)": the loop's exit test.
LoopDone(block, tailBlock_) == block = tailBlock_

\* "do { ... delete block; block = nextBlock; } while (block != tailBlock_)":
\* the values destroyed and the blocks deleted, from block on.
RECURSIVE DestroyWalk(_, _)
DestroyWalk(block, tailBlock_) ==
    LET nextBlock == next[block]
        here == [log |-> DestroyRange(block, front[block], tail[block]),
                 del |-> <<block>>]
    IN  IF LoopDone(nextBlock, tailBlock_) THEN here
        ELSE LET rest == DestroyWalk(nextBlock, tailBlock_)
             IN  [log |-> here.log \o rest.log, del |-> here.del \o rest.del]

Destructor ==
    /\ alive /\ prod.pc = "idle" /\ cons.pc = "idle"
    /\ LET w == DestroyWalk(frontBlock, tailBlock)
       IN  /\ destroyed' = destroyed \o w.log
           /\ freed' = w.del
           /\ data' = [b \in Blocks |->
                          IF \E k \in DOMAIN w.del : w.del[k] = b THEN [i \in DOMAIN data[b] |-> RawSlot]
                          ELSE data[b]]
    /\ alive' = FALSE
    /\ UNCHANGED <<wrap, maxSize, nblocks, bsize, front, tail, next, frontBlock, tailBlock,
                   largestBlockSize, prod, cons, result, calls, enqSeq, deqSeq, hist>>

(* ============================ the system =============================== *)
Next ==
    \/ \E mode \in {"CanAlloc", "CannotAlloc"}, ctx \in Callers : E_Begin(mode, ctx)
    \/ E_LoadIndices
    \/ E_A_CtorBegin
    \/ E_A_CtorEnd
    \/ E_A_StoreTail
    \/ E_CheckNext
    \/ E_B_Load
    \/ E_B_CtorBegin
    \/ E_B_CtorEnd
    \/ E_B_StoreTail
    \/ E_B_StoreTailBlock
    \/ E_C_Alloc
    \/ E_C_Construct
    \/ E_C_Splice
    \/ E_C_StoreTailBlock
    \/ \E ctx \in Callers : D_Begin(ctx)
    \/ D_LoadIndices
    \/ D_Branch
    \/ D_A_Move
    \/ D_A_Destroy
    \/ D_A_StoreFront
    \/ D_B_Load
    \/ D_B_StoreFrontBlock
    \/ D_B_Move
    \/ D_B_Destroy
    \/ D_B_StoreFront
    \/ \E side \in {"enq", "deq"}, ctx \in Callers : ReentrantAbort(side, ctx)
    \/ Destructor

Spec == Init /\ [][Next]_vars

\* The steps of a running enqueue / try_enqueue call, and of a running
\* try_dequeue call.
ProdStep ==
    \/ E_LoadIndices \/ E_A_CtorBegin \/ E_A_CtorEnd \/ E_A_StoreTail
    \/ E_CheckNext \/ E_B_Load \/ E_B_CtorBegin \/ E_B_CtorEnd \/ E_B_StoreTail
    \/ E_B_StoreTailBlock \/ E_C_Alloc \/ E_C_Construct \/ E_C_Splice
    \/ E_C_StoreTailBlock
ConsStep ==
    \/ D_LoadIndices \/ D_Branch \/ D_A_Move \/ D_A_Destroy \/ D_A_StoreFront
    \/ D_B_Load \/ D_B_StoreFrontBlock \/ D_B_Move \/ D_B_Destroy
    \/ D_B_StoreFront

\* The queue with peek() called by the consumer thread between its calls.
PeekStep ==
    \/ P_LoadIndices \/ P_Branch \/ P_B_Load \/ P_B_StoreFrontBlock
NextPeek ==
    \/ Next
    \/ P_Begin
    \/ PeekStep
SpecPeek == Init /\ [][NextPeek]_vars

\* The queue with size_approx() called by either thread between its calls.
SizeStep ==
    \/ \E t \in Threads : S_Read(t)
    \/ \E t \in Threads : S_Next(t)
NextSize ==
    \/ Next
    \/ \E t \in Threads : S_Begin(t)
    \/ SizeStep
SpecSize == Init /\ [][NextSize]_vars

\* The constructor called with any argument "assert(maxSize > 0)" lets
\* through, followed by try_enqueue calls.  A block of size 0 has no slot to
\* construct in, so the calls on a queue built with one are left out.
CtorSizes == 1..(Word - 1)
InitCtor == Constructed(CtorSizes, HistInit)
NextCtor ==
    \/ bsize[1] >= 2 /\ E_Begin("CannotAlloc", "thread")
    \/ E_LoadIndices
    \/ E_A_CtorBegin
    \/ E_A_CtorEnd
    \/ E_A_StoreTail
    \/ E_CheckNext
SpecCtor == InitCtor /\ [][NextCtor]_vars

\* The queue with the largest number of resident elements recorded.
InitLoad == Constructed(MaxSizes, [HistInit EXCEPT !.peak = 0])
SpecLoad == InitLoad /\ [][Next]_vars

\* One producer enqueuing through the blocking wrapper and one consumer
\* calling wait_dequeue; size_approx() is called once everything enqueued has
\* been received (the ring is then drained, so frontBlock is the tail block
\* and the walk reads one block).  Each thread, once in a call, keeps being
\* scheduled.
Delivered ==
    /\ wrap.cpc = "idle" /\ wrap.ppc = "idle" /\ prod.pc = "idle"
    /\ Len(enqSeq) > 0 /\ wrap.returned = Len(enqSeq)
ProdWrapperStep == ProdStep \/ B_AfterEnqueue
ConsWrapperStep == W_Wait \/ D_Begin("wrapper") \/ ConsStep \/ W_Check
NextBlocking ==
    \/ \E mode \in {"CanAlloc", "CannotAlloc"} : E_Begin(mode, "wrapper")
    \/ ProdWrapperStep
    \/ W_Call
    \/ ConsWrapperStep
    \/ Delivered /\ S_Begin("cons")
    \/ S_Read("cons")
SpecBlocking ==
    /\ Init /\ [][NextBlocking]_vars
    /\ WF_vars(ProdWrapperStep)
    /\ WF_vars(ConsWrapperStep)

(* ============================ properties =============================== *)
Quiescent == alive /\ prod.pc = "idle" /\ cons.pc = "idle"

IsPrefix(s, t) == Len(s) <= Len(t) /\ \A i \in 1..Len(s) : s[i] = t[i]

\* (tail - front) mod size of one block
BlockCount(b) == (tail[b] - front[b] + bsize[b]) % bsize[b]

RECURSIVE RingCount(_)
RingCount(n) == IF n = 0 THEN 0 ELSE BlockCount(n) + RingCount(n - 1)

\* C1: the values returned by successful try_dequeue calls are, at every
\* moment of every interleaving, a prefix of the values whose enqueue
\* succeeded (which are strictly increasing), also when the ring grows.
C1_Fifo ==
    /\ IsPrefix(deqSeq, enqSeq)
    /\ \A i, j \in 1..Len(deqSeq) : i < j => deqSeq[i] < deqSeq[j]

\* C1 witness: three values were dequeued across a growth of the ring, the
\* consumer has moved to a later block, and the producer is mid-enqueue.
C1_Witness ==
    /\ Len(deqSeq) >= 3 /\ nblocks >= 2 /\ frontBlock /= 1
    /\ prod.pc \notin {"idle"}

\* C2: with no operation in progress the blocks' (tail - front) mod size sum
\* up to successful enqueues minus successful dequeues; and a try_dequeue
\* that ran with the producer idle succeeded exactly if that number was
\* positive, returning the oldest resident value.
C2_Conservation ==
    /\ Quiescent => RingCount(nblocks) = Resident
    /\ (alive /\ cons.pc = "idle" /\ cons.ret /= "none" /\ hist.csolo) =>
          /\ (cons.ret = "true") <=> (cons.startCount > 0)
          /\ cons.ret = "true" =>
                /\ Len(deqSeq) >= 1 /\ Len(deqSeq) <= Len(enqSeq)
                /\ result = enqSeq[Len(deqSeq)]
                /\ Resident = cons.startCount - 1
          /\ cons.ret = "false" => Resident = 0

\* C2 witness: a quiescent point after growth with elements in two blocks,
\* reached by a try_dequeue that ran alone and succeeded.
C2_Witness ==
    /\ Quiescent /\ nblocks >= 2 /\ frontBlock /= tailBlock
    /\ Resident >= 2 /\ BlockCount(frontBlock) >= 1
    /\ cons.ret = "true" /\ hist.csolo

\* C3: a try_dequeue that returns false saw an empty queue at some instant
\* of the call, and the consumer never moves frontBlock off a block that
\* still holds an element.
C3_EmptyIsReal ==
    /\ (cons.pc = "idle" /\ cons.ret = "false") => hist.wasEmpty
    /\ ~hist.skipped

\* C3 witness: a try_dequeue returned false although the producer, running
\* during the call, has meanwhile filled the front block and moved on.
C3_Witness ==
    /\ cons.pc = "idle" /\ cons.ret = "false" /\ ~hist.csolo
    /\ Resident > 0 /\ tailBlock /= frontBlock

\* C4: once the queue is destroyed every enqueued element has been destroyed
\* exactly once, the residual ones by the destructor in enqueue order.
C4_DestructorCount == ~alive => destroyed = enqSeq

\* C5: while every enqueue call starts with fewer than maxSize resident
\* elements, no call fails and no Block is allocated after construction.
C5_NoAllocBelowMaxSize ==
    ~hist.overCap => (nblocks = 1 /\ ~hist.failed /\ largestBlockSize = bsize[1])

\* C5 witness: a queue that held maxSize elements, took more enqueues than
\* its block has slots, none of them over capacity, and every call succeeded.
C5_Witness ==
    /\ ~hist.overCap /\ prod.pc = "idle" /\ prod.ret = "true"
    /\ prod.startCount = maxSize - 1
    /\ Len(enqSeq) > bsize[1] /\ Len(enqSeq) = calls

\* C6: on a single block of size maxSize + 1, a try_enqueue that runs alone
\* returns true exactly when fewer than maxSize elements are resident, and a
\* try_dequeue that runs alone returns true exactly when one is.
C6_CounterModel ==
    (alive /\ nblocks = 1 /\ bsize[1] = maxSize + 1) =>
       /\ (prod.pc = "idle" /\ prod.mode = "CannotAlloc" /\ hist.psolo) =>
             ((prod.ret = "true") <=> (prod.startCount < maxSize))
       /\ (cons.pc = "idle" /\ cons.ret /= "none" /\ hist.csolo) =>
             ((cons.ret = "true") <=> (cons.startCount > 0))

\* C6 witness: try_enqueue refused the element on a full single block whose
\* indices have wrapped around (tail behind front).
C6_Witness ==
    /\ alive /\ nblocks = 1 /\ bsize[1] = maxSize + 1
    /\ prod.pc = "idle" /\ prod.mode = "CannotAlloc" /\ hist.psolo
    /\ prod.ret = "false" /\ prod.startCount = maxSize
    /\ tail[1] < front[1] /\ Len(deqSeq) >= bsize[1]

\* C7: no try_enqueue call changes the number of Blocks or
\* largestBlockSize, and one that returned false changed no shared state.
C7_TryEnqueueClean ==
    /\ ~hist.grew
    /\ (prod.pc = "idle" /\ prod.mode = "CannotAlloc" /\ prod.ret = "false")
          => ~hist.pdirty

\* C7 witness: try_enqueue returned false on a ring of several blocks while
\* the consumer was running.
C7_Witness ==
    /\ prod.pc = "idle" /\ prod.mode = "CannotAlloc" /\ prod.ret = "false"
    /\ nblocks >= 2 /\ ~hist.psolo /\ cons.pc /= "idle"

\* C8: a try_dequeue that returned false changed no shared state and not
\* the caller's result; on a fresh queue try_dequeue returns false.
C8_TryDequeueClean ==
    /\ (cons.pc = "idle" /\ cons.ret = "false") => ~hist.cdirty
    /\ (calls = 0 /\ cons.pc = "idle" /\ cons.ret /= "none") => cons.ret = "false"

\* C8 witness: try_dequeue returned false after earlier dequeues, with the
\* caller's variable still holding the value of the last success.
C8_Witness ==
    /\ cons.pc = "idle" /\ cons.ret = "false"
    /\ Len(deqSeq) >= 2 /\ result = deqSeq[Len(deqSeq)] /\ nblocks >= 2

\* The slots front, front + 1, ... up to tail of a block.
RECURSIVE IndexRange(_, _, _)
IndexRange(b, i, t) ==
    IF i = t \/ ~InBlock(b, i) THEN {} ELSE {i} \cup IndexRange(b, NextIndex(i, bsize[b]), t)

\* The oldest value enqueued and not yet dequeued (0 if there is none).
OldestResident == IF Len(deqSeq) < Len(enqSeq) THEN enqSeq[Len(deqSeq) + 1] ELSE 0

\* C9: the slot the consumer is about to move from holds a completely
\* constructed element, the next one in enqueue order; the producer stores a
\* block's tail, and tailBlock, only with the element constructed (and, for
\* tailBlock, the new block's tail stored); every slot the front block shows
\* as occupied is constructed.
C9_Publication ==
    /\ cons.pc = "d_A_move" =>
          Slot(cons.frontBlock_, cons.blockFront) = LiveSlot(OldestResident)
    /\ cons.pc = "d_B_move" =>
          Slot(cons.frontBlock_, cons.nextBlockFront) = LiveSlot(OldestResident)
    /\ prod.pc = "e_A_tail" =>
          Slot(prod.tailBlock_, prod.blockTail) = LiveSlot(prod.elem)
    /\ prod.pc = "e_B_tailBlock" =>
          /\ Slot(prod.tailBlockNext, prod.nextBlockTail) = LiveSlot(prod.elem)
          /\ tail[prod.tailBlockNext] /= prod.nextBlockTail
          /\ tailBlock /= prod.tailBlockNext
    /\ prod.pc = "e_C_tailBlock" =>
          /\ Slot(prod.newBlock, 0) = LiveSlot(prod.elem)
          /\ tail[prod.newBlock] = 1
          /\ tailBlock /= prod.newBlock
    /\ alive /\ hist.abort = <<>> =>
        \A i \in IndexRange(frontBlock, front[frontBlock], tail[frontBlock]) :
                   \/ Slot(frontBlock, i).st = "live"
                   \/ /\ i = front[frontBlock]
                      /\ cons.pc \in {"d_A_dtor", "d_A_front", "d_B_dtor", "d_B_front"}

\* C9 witness: the consumer is about to read a slot of the block in which
\* the producer is constructing the next element.
C9_Witness ==
    /\ cons.pc = "d_A_move" /\ prod.pc = "e_A_ctor2"
    /\ prod.tailBlock_ = cons.frontBlock_

\* C10: the slot the producer is about to construct into holds no element:
\* it was never used, or its element has been destroyed.
C10_Reclamation ==
    /\ prod.pc = "e_A_ctor" => Slot(prod.tailBlock_, prod.blockTail) = RawSlot
    /\ prod.pc = "e_B_ctor" => Slot(prod.tailBlockNext, prod.nextBlockTail) = RawSlot
    /\ prod.pc = "e_C_ctor" => Slot(prod.newBlock, 0) = RawSlot

\* C10 witness: the producer is about to construct into a slot of the only
\* block that an earlier element occupied, while the consumer is dequeuing.
C10_Witness ==
    /\ prod.pc = "e_A_ctor" /\ nblocks = 1 /\ Len(enqSeq) >= bsize[1]
    /\ cons.pc \in {"d_A_move", "d_A_dtor", "d_A_front"}

C13_PeekConsistency ==
    /\ alive /\ cons.pc = "idle" /\ cons.ret = "ptr" =>
          /\ cons.ptrV > 0 /\ cons.ptrV = OldestResident
          /\ Slot(cons.ptrB, cons.ptrI) = LiveSlot(cons.ptrV)
    /\ cons.pc = "idle" /\ cons.ret \in {"true", "false"} /\ hist.peeked > 0 =>
          cons.ret = "true" /\ result = hist.peeked
    /\ cons.pc = "idle" /\ cons.ret \in {"ptr", "null"} /\ hist.peeked > 0 =>
          cons.ret = "ptr" /\ cons.ptrV = hist.peeked
    /\ cons.pc = "idle" /\ cons.ret = "null" => hist.wasEmpty

\* C13 witness: a try_dequeue returned the value the peek before it pointed
\* to, in a block that peek had advanced frontBlock to, while the producer is
\* constructing the next element.
C13_Witness ==
    /\ cons.pc = "idle" /\ cons.ret = "true"
    /\ hist.peeked > 1 /\ result = hist.peeked
    /\ frontBlock /= 1 /\ front[frontBlock] = 1
    /\ prod.pc = "e_A_ctor2"

(* ------------------------------ C14 ------------------------------------ *)
\* C14: the value size_approx returned lies between the number of resident
\* elements at its call and at its return.  Called by the producer thread
\* (dequeues may run meanwhile) it is at most the count at the call, which is
\* all enqueues minus the dequeues completed before its reads, and at least
\* the count at the return; called by the consumer thread (enqueues may run
\* meanwhile) it is at least the count at the call and at most the count at
\* the return.  So it is never negative, it is the true size at some moment
\* of the call, and it is exact when the other thread made no change.
C14_SizeApproxBounds ==
    /\ prod.ret = "size" =>
          /\ prod.endCount <= prod.szSum /\ prod.szSum <= prod.startCount
          /\ prod.szSum >= 0
    /\ cons.ret = "size" =>
          /\ cons.startCount <= cons.szSum /\ cons.szSum <= cons.endCount
          /\ cons.szSum >= 0

\* C14 witness: a size_approx call on the consumer thread walked two blocks
\* while the producer enqueued, and returned a value strictly between the
\* counts at its call and at its return.
C14_Witness ==
    /\ cons.pc = "idle" /\ cons.ret = "size"
    /\ 0 < cons.startCount /\ cons.startCount < cons.szSum
    /\ cons.szSum < cons.endCount
    /\ nblocks >= 2

(* ------------------------------ C15 ------------------------------------ *)
\* C15: through the blocking wrapper, the values received are the values
\* enqueued, in order; a wait_dequeue call that returned took its element from
\* the queue, and it gets past the semaphore only with an element enqueued
\* for it; a size_approx call made once everything has been received returns
\* 0 if nothing was enqueued meanwhile; and a pending wait_dequeue call for
\* which an element has been enqueued eventually returns.
C15_Safety ==
    /\ IsPrefix(deqSeq, enqSeq)
    /\ wrap.returned <= Len(enqSeq)
    /\ wrap.cpc /= "tried" => wrap.returned = Len(deqSeq)
    /\ wrap.cpc \in {"loop", "tried"} => Len(enqSeq) > wrap.returned
    /\ wrap.sem >= 0 /\ wrap.sem <= Resident
    /\ Delivered => frontBlock = tailBlock
    /\ cons.ret = "size" =>
          /\ cons.startCount = 0 /\ cons.szSum <= cons.endCount
          /\ cons.szSum >= 0
C15_BlockingDelivery ==
    /\ []C15_Safety
    /\ (wrap.cpc /= "idle" /\ Len(enqSeq) > wrap.returned) ~> (wrap.cpc = "idle")

\* C15 witness: a wait_dequeue call that found the semaphore at 0 has
\* returned with the third value, out of a block the ring grew by.
C15_Witness ==
    /\ wrap.cpc = "idle" /\ wrap.blocked /\ wrap.returned = 3
    /\ result = 3 /\ nblocks >= 2 /\ frontBlock /= 1

(* ------------------------------ C16 ------------------------------------ *)
\* C16: once the destructor has run, every block allocated over the queue's
\* lifetime has been deleted exactly once.
C16_AllBlocksFreedOnce ==
    ~alive => \A b \in 1..nblocks :
                 Cardinality({k \in DOMAIN freed : freed[k] = b}) = 1

(* ------------------------------ C17 ------------------------------------ *)
\* C17 as stated: in case B, when the producer is about to store tailBlock,
\* the new element is in slot 0 of the next block and that block's tail is 1.
C17_CaseBSlotZero ==
    prod.pc = "e_B_tailBlock" =>
        /\ Slot(prod.tailBlockNext, 0) = LiveSlot(prod.elem)
        /\ tail[prod.tailBlockNext] = 1

\* C17, amended: in case B the next block is empty at the index its front
\* and tail share, which need not be 0; when the producer is about to store
\* tailBlock, the new element is in the slot at that index, the block's tail
\* is one past it (mod size) and its front is still at it.
C17_CaseBAtTail ==
    /\ prod.pc \in {"e_B_ctor", "e_B_ctor2", "e_B_tail"} =>
          /\ prod.nextBlockTail = prod.nextBlockFront
          /\ tail[prod.tailBlockNext] = prod.nextBlockTail
    /\ prod.pc = "e_B_tailBlock" =>
          /\ Slot(prod.tailBlockNext, prod.nextBlockTail) = LiveSlot(prod.elem)
          /\ tail[prod.tailBlockNext]
                = NextIndex(prod.nextBlockTail, bsize[prod.tailBlockNext])
          /\ front[prod.tailBlockNext] = prod.nextBlockTail
          /\ tailBlock = prod.tailBlock_ /\ tailBlock /= prod.tailBlockNext

\* C17 witness: case B on a block that was filled and drained before, its
\* indices not 0.
C17_Witness ==
    /\ prod.pc = "e_B_tailBlock" /\ prod.nextBlockTail /= 0
    /\ Slot(prod.tailBlockNext, 0) = RawSlot

(* ------------------------------ C18 ------------------------------------ *)
\* C18: an enqueue that failed because the new block could not be allocated
\* changed nothing, and largestBlockSize is the size of the block allocated
\* last.
C18_AllocFailureIntact ==
    prod.pc = "idle" /\ prod.ret = "throw" =>
        /\ ~hist.pdirty
        /\ largestBlockSize = bsize[nblocks]

(* ------------------------------ C19 ------------------------------------ *)
\* The blocks strictly after tailBlock and strictly before frontBlock in ring
\* order: the blocks the producer will reuse.
RECURSIVE RingUntil(_, _, _)
RingUntil(b, stop, fuel) ==
    IF b = stop \/ b = NullBlock \/ fuel = 0 THEN {}
    ELSE {b} \cup RingUntil(next[b], stop, fuel - 1)
FreeZone == RingUntil(next[tailBlock], frontBlock, MaxBlocks)
\* The queue exists and the program has not been aborted.
Running == alive /\ hist.abort = <<>>
AssertNextBlockEmpty ==
    prod.pc = "e_B_ctor" => prod.nextBlockFront = prod.nextBlockTail

\* C19 as stated: the assertion holds, and in every reachable state every
\* block strictly after tailBlock and strictly before frontBlock is empty.
C19_FreeZoneEmptyAlways ==
    /\ AssertNextBlockEmpty
    /\ Running => \A b \in FreeZone : front[b] = tail[b]

\* C19, amended: the assertion holds; every block strictly after tailBlock
\* and strictly before frontBlock is empty except while the producer stands
\* between writing the first element of the block after tailBlock and storing
\* tailBlock, when that block holds this one element and the others are
\* empty.
C19_FreeZoneEmpty ==
    /\ AssertNextBlockEmpty
    /\ Running /\ prod.pc \notin {"e_B_tailBlock", "e_C_tailBlock"} =>
          \A b \in FreeZone : front[b] = tail[b]
    /\ Running /\ prod.pc \in {"e_B_tailBlock", "e_C_tailBlock"} =>
          \A b \in FreeZone :
             IF b = next[tailBlock]
             THEN tail[b] = NextIndex(front[b], bsize[b])
             ELSE front[b] = tail[b]

\* C19 witness: the producer found the block after its full tail block empty
\* and is about to construct in it, while the consumer is in a dequeue.
C19_Witness ==
    /\ prod.pc = "e_B_ctor" /\ prod.tailBlockNext \in FreeZone
    /\ prod.nextBlockFront = prod.nextBlockTail
    /\ cons.pc \notin {"idle", "aborted"}

(* ------------------------------ C20 ------------------------------------ *)
\* The blocks after frontBlock up to and including tailBlock.
FilledZone == RingUntil(next[frontBlock], next[tailBlock], MaxBlocks)

\* C20: when the consumer has read the indices of the block after its empty
\* front block, they differ and the slot at that front holds the oldest
\* resident element; tailBlock is on a block other than frontBlock only with
\* an element in it, and so is every block between them.
C20_NextBlockNotEmpty ==
    /\ cons.pc = "d_B_frontBlock" =>
          /\ cons.nextBlockFront /= cons.nextBlockTail
          /\ Slot(cons.nextBlock, cons.nextBlockFront) = LiveSlot(OldestResident)
    /\ Running /\ frontBlock /= tailBlock =>
          \A b \in FilledZone : front[b] /= tail[b]

\* C20 witness: the consumer has read the indices of the next block while the
\* producer, already past that block, is enqueuing.
C20_Witness ==
    /\ cons.pc = "d_B_frontBlock" /\ cons.nextBlockFront /= cons.nextBlockTail
    /\ prod.pc \notin {"idle", "aborted"}
    /\ cons.nextBlock \in FilledZone

(* ------------------------------ C21 ------------------------------------ *)
\* The blocks strictly after frontBlock and strictly before tailBlock.
BetweenZone ==
    IF frontBlock = tailBlock THEN {}
    ELSE RingUntil(next[frontBlock], tailBlock, MaxBlocks)

\* "(tail + 1) mod size == front"
BlockFull(b) == front[b] = NextIndex(tail[b], bsize[b])

\* C21: in every state, in the middle of operations too, every block strictly
\* between frontBlock and tailBlock in ring order is completely full.
C21_BetweenBlocksFull ==
    Running => \A b \in BetweenZone : BlockFull(b)

\* C21 witness: a ring of three blocks with a block between the front block
\* and the tail block, while both threads are in the middle of a call.
C21_Witness ==
    /\ Running /\ nblocks = 3 /\ BetweenZone /= {}
    /\ \A b \in BetweenZone : BlockFull(b) /\ bsize[b] > 2
    /\ prod.pc \notin {"idle", "aborted"} /\ cons.pc \notin {"idle", "aborted"}

(* ------------------------------ C22 ------------------------------------ *)
\* While the producer is in case B, the block after its tail block is not
\* the front block, whatever the consumer has done since the test.
C22_NextIsNotFront ==
    /\ prod.pc \in {"e_B_load", "e_B_ctor", "e_B_ctor2", "e_B_tail", "e_B_tailBlock"} =>
          /\ prod.tailBlock_ = tailBlock
          /\ next[prod.tailBlock_] /= frontBlock
    /\ prod.pc \in {"e_B_ctor", "e_B_ctor2", "e_B_tail", "e_B_tailBlock"} =>
          prod.tailBlockNext = next[prod.tailBlock_]
    /\ prod.pc = "e_C_tailBlock" =>
          /\ prod.newBlock = nblocks /\ prod.newBlock /= frontBlock
          /\ next[tailBlock] = prod.newBlock

\* A store of tailBlock moves it to the block after it, which is not the
\* front block at that moment and holds the new element only: the empty block
\* ahead (case B) or the block just allocated (case C).
C22_AdvanceStep ==
    tailBlock' /= tailBlock =>
        /\ tailBlock' /= frontBlock /\ tailBlock' = next[tailBlock]
        /\ BlockCount(tailBlock') = 1
        /\ \/ prod.pc = "e_B_tailBlock"
           \/ prod.pc = "e_C_tailBlock" /\ tailBlock' = nblocks

\* With the tail block full and the front block after it, the producer goes
\* on to allocate or returns false, also when the front block is drained.
C22_FrontAheadStep ==
    (prod.pc = "e_next" /\ next[prod.tailBlock_] = frontBlock
       /\ prod'.pc \notin {"e_next", "aborted"}) =>
        \/ prod'.pc = "e_C_alloc"
        \/ prod'.pc = "idle" /\ prod'.ret = "false"

\* C22: in every interleaving the producer advances tailBlock only to a block
\* that is not the front block at the moment of the advance, an empty block
\* ahead or a newly allocated one; when the block after the tail block is the
\* front block it allocates or returns false, even if that block is drained.
C22_NeverIntoFrontBlock ==
    /\ []C22_NextIsNotFront
    /\ [][C22_AdvanceStep]_vars
    /\ [][C22_FrontAheadStep]_vars

\* C22 witness: the producer is about to allocate because the block after its
\* full tail block is the front block, which the consumer has drained.
C22_Witness ==
    /\ prod.pc = "e_C_alloc" /\ frontBlock /= tailBlock
    /\ next[tailBlock] = frontBlock /\ front[frontBlock] = tail[frontBlock]
    /\ Len(deqSeq) >= 1

(* ------------------------------ C23 ------------------------------------ *)
\* The blocks reached from frontBlock along next, and the blocks that have
\* been spliced in (a block fresh from its constructor has next == nullptr).
Ring == {frontBlock} \cup RingUntil(next[frontBlock], frontBlock, MaxBlocks)
Spliced == {b \in 1..nblocks : next[b] /= NullBlock}

\* The ring right after construction.
C23_InitialRing ==
    /\ nblocks = 1 /\ next[1] = 1 /\ frontBlock = 1 /\ tailBlock = 1
    /\ bsize[1] = InitialBlockSize(maxSize)

\* One simple cycle: next maps the ring one-to-one onto itself, the ring is
\* all the blocks spliced in, and frontBlock and tailBlock are on it.
C23_SimpleCycle ==
    alive =>
        /\ Ring = Spliced
        /\ \A b \in Ring : next[b] \in Ring
        /\ \A a, b \in Ring : next[a] = next[b] => a = b
        /\ frontBlock \in Ring /\ tailBlock \in Ring
        /\ Cardinality((1..nblocks) \ Spliced) <= 1

\* A step that changes a next pointer is a growth: it puts one block, new to
\* the ring, directly after the tail block and changes nothing else.
C23_GrowthStep ==
    next' /= next =>
        LET nb == prod.newBlock
        IN  /\ prod.pc = "e_C_splice" /\ prod.tailBlock_ = tailBlock
            /\ nb \notin Ring /\ Ring' = Ring \cup {nb}
            /\ next'[nb] = next[tailBlock] /\ next'[tailBlock] = nb
            /\ \A b \in Blocks \ {nb, tailBlock} : next'[b] = next[b]

\* No step takes a block off the ring or changes the size of a block, and
\* only the destructor deletes blocks.
C23_KeepStep ==
    /\ Ring \subseteq Ring' /\ nblocks' >= nblocks
    /\ \A b \in 1..nblocks : bsize'[b] = bsize[b]
    /\ freed' /= freed => alive /\ ~alive'

\* C23: the next pointers of the blocks spliced in form one simple cycle with
\* frontBlock and tailBlock on it, from a single block that is its own next;
\* a growth inserts exactly one new block directly after the tail block; no
\* operation but destruction removes a block, none changes a block's size.
C23_RingShape ==
    /\ C23_InitialRing
    /\ []C23_SimpleCycle
    /\ [][C23_GrowthStep]_vars
    /\ [][C23_KeepStep]_vars

\* C23 witness: the ring has grown to three blocks, the third spliced in
\* after block 1, which the producer came back to once the consumer had
\* moved its front block on.
C23_Witness ==
    /\ nblocks = 3 /\ Ring = {1, 2, 3} /\ prod.pc = "e_C_tailBlock"
    /\ next[1] = 3 /\ next[3] = 2 /\ next[2] = 1
    /\ frontBlock = 2 /\ tailBlock = 1

(* ------------------------------ C24 ------------------------------------ *)
\* The step is one of an enqueue / try_enqueue call, of a try_dequeue call.
ProdTookStep == prod' /= prod /\ cons' = cons
ConsTookStep == cons' /= cons /\ prod' = prod

\* The step leaves alone every slot of the blocks existing before it that
\* is in one of the states sts after it.
SlotsKept(sts) ==
    \A b \in 1..nblocks : \A i \in 0..(bsize[b] - 1) :
        Slot(b, i)'.st \in sts => Slot(b, i)' = Slot(b, i)

\* An enqueue step writes neither frontBlock nor the front of a block, nor
\* the caller's result, and ends the life of no element.
C24_ProducerFrame ==
    ProdTookStep =>
        /\ frontBlock' = frontBlock
        /\ \A b \in 1..nblocks : front'[b] = front[b]
        /\ destroyed' = destroyed /\ deqSeq' = deqSeq /\ result' = result
        /\ SlotsKept({"raw", "moved"})

\* A try_dequeue step writes neither tailBlock nor a tail, a next pointer or
\* largestBlockSize, allocates nothing and constructs no element.
C24_ConsumerFrame ==
    ConsTookStep =>
        /\ tailBlock' = tailBlock /\ tail' = tail /\ next' = next
        /\ largestBlockSize' = largestBlockSize
        /\ nblocks' = nblocks /\ bsize' = bsize /\ enqSeq' = enqSeq
        /\ SlotsKept({"ctor", "live"})

\* C24: no step of an enqueue / try_enqueue call writes frontBlock or a
\* block's front or destroys an element; no step of a try_dequeue call writes
\* tailBlock, a block's tail or next, or largestBlockSize, or constructs an
\* element.  So each shared variable has one writing role.
C24_SingleWriter ==
    /\ [][C24_ProducerFrame]_vars
    /\ [][C24_ConsumerFrame]_vars

\* C24 witness: both calls are under way, each having written its own
\* variables: the producer has spliced in a new block and is about to publish
\* it, the consumer has moved frontBlock to another block and destroyed the
\* element at its front.
C24_Witness ==
    /\ prod.pc = "e_C_tailBlock" /\ cons.pc = "d_B_front"
    /\ hist.pdirty /\ hist.cdirty
    /\ cons.frontBlock_ /= prod.newBlock

(* ------------------------------ C25 ------------------------------------ *)
\* The slots of a block that hold an element: under construction, live, or
\* moved-from and not yet destroyed.
Occupied(b) == {i \in 0..(bsize[b] - 1) : Slot(b, i).st /= "raw"}

\* An enqueue has started constructing in block b and not yet stored the
\* block's tail; a try_dequeue has moved the element out of the front slot of
\* block b and not yet stored the block's front.
EnqueueInFlight(b) ==
    \/ prod.pc \in {"e_A_ctor2", "e_A_tail"} /\ prod.tailBlock_ = b
    \/ prod.pc \in {"e_B_ctor2", "e_B_tail"} /\ prod.tailBlockNext = b
DequeueInFlight(b) ==
    /\ cons.pc \in {"d_A_dtor", "d_A_front", "d_B_dtor", "d_B_front"}
    /\ cons.frontBlock_ = b

\* In every state a block of size s has at most s - 1 slots holding an
\* element, and at most s - 1 between its front and its tail; a block no call
\* is in the middle of changing holds elements in exactly the slots from
\* front up to tail, so its front equals its tail exactly when it holds none.
C25_SpareSlot ==
    Running =>
        \A b \in 1..nblocks :
            /\ Cardinality(Occupied(b)) <= bsize[b] - 1
            /\ BlockCount(b) <= bsize[b] - 1
            /\ ~EnqueueInFlight(b) /\ ~DequeueInFlight(b) =>
                  /\ Occupied(b) = IndexRange(b, front[b], tail[b])
                  /\ Cardinality(Occupied(b)) = BlockCount(b)
                  /\ (front[b] = tail[b]) <=> (Occupied(b) = {})

\* A store to a block's tail moves it one slot on, and not onto the front.
C25_TailStep ==
    \A b \in 1..nblocks :
        tail'[b] /= tail[b] =>
            /\ tail'[b] = NextIndex(tail[b], bsize[b])
            /\ tail'[b] /= front[b] /\ tail'[b] /= front'[b]

\* C25: each block of size s holds at most s - 1 elements in every reachable
\* state, so that front == tail holds for a block exactly when it holds no
\* element, and the producer never advances a block's tail onto its front.
C25_OneWastedSlot ==
    /\ []C25_SpareSlot
    /\ [][C25_TailStep]_vars

\* C25 witness: a block holds size - 1 elements, its tail wrapped around to
\* just behind its front, and try_enqueue has returned false on it.
C25_Witness ==
    /\ Running /\ nblocks = 1 /\ bsize[1] = 4
    /\ Cardinality(Occupied(1)) = 3 /\ front[1] = 2 /\ tail[1] = 1
    /\ prod.pc = "idle" /\ prod.ret = "false" /\ cons.pc = "idle"

(* ------------------------------ C26 ------------------------------------ *)
\* Blocks are numbered in allocation order: each block allocated by a growth
\* is twice the size of the one allocated before it.
SizesDouble == \A b \in 2..nblocks : bsize[b] = (2 * bsize[b - 1]) % Word

\* A step that changes largestBlockSize is the allocation of the growth
\* branch.
C26_LargestStep ==
    largestBlockSize' /= largestBlockSize =>
        prod.pc = "e_C_alloc" /\ largestBlockSize' = (2 * largestBlockSize) % Word

\* C26: the blocks allocated by successive growths have sizes 2s, 4s, 8s, ...
\* where s is the size of the first block; after every completed enqueue
\* largestBlockSize is the size of the block allocated last; largestBlockSize
\* changes only in the growth branch.
C26_GrowthShape ==
    /\ [](bsize[1] = InitialBlockSize(maxSize) /\ SizesDouble)
    /\ [](prod.pc = "idle" /\ prod.ret /= "none" => largestBlockSize = bsize[nblocks])
    /\ [][C26_LargestStep]_vars

(* ------------------------------ C27 ------------------------------------ *)
\* The powers of two up to 2^w, and the smallest one that is >= n.
PowersOfTwo == {Pow2(k) : k \in 0..WordBits}
SmallestPow2AtLeast(n) ==
    CHOOSE p \in PowersOfTwo :
        p >= n /\ \A q \in PowersOfTwo : q >= n => p <= q

\* C27: for every maxSize >= 1 that fits size_t the constructor makes one
\* block, of the smallest power of two >= maxSize + 1 slots (so at least 2,
\* with room for maxSize elements and the spare slot), its indices 0, its
\* next itself, frontBlock and tailBlock on it, largestBlockSize its size.
C27_InitialBlock ==
    /\ nblocks = 1 /\ next[1] = 1 /\ frontBlock = 1 /\ tailBlock = 1
    /\ bsize[1] = SmallestPow2AtLeast(maxSize + 1)
    /\ bsize[1] \in PowersOfTwo /\ bsize[1] >= 2 /\ bsize[1] >= maxSize + 1
    /\ largestBlockSize = bsize[1]
    /\ Len(data[1]) = bsize[1]
    /\ calls = 0 => front[1] = 0 /\ tail[1] = 0

(* ------------------------------ C28 ------------------------------------ *)
\* The abstract FIFO sequence: the values enqueued and not yet dequeued.
Abs == SubSeq(enqSeq, Len(deqSeq) + 1, Len(enqSeq))

\* The slots of block b from index i up to t, in order.
RECURSIVE SlotRange(_, _, _)
SlotRange(b, i, t) ==
    IF i = t \/ ~InBlock(b, i) THEN <<>>
    ELSE <<Slot(b, i)>> \o SlotRange(b, NextIndex(i, bsize[b]), t)

\* The slots between front and tail of the blocks from b to stop, in ring
\* order.
RECURSIVE RingSlots(_, _, _)
RingSlots(b, stop, fuel) ==
    SlotRange(b, front[b], tail[b])
        \o (IF b = stop \/ fuel = 0 \/ next[b] = NullBlock THEN <<>>
            ELSE RingSlots(next[b], stop, fuel - 1))
QueueSlots == RingSlots(frontBlock, tailBlock, MaxBlocks)

\* A try_dequeue has moved the front element out and not yet stored front.
ConsMovedOut == cons.pc \in {"d_A_dtor", "d_A_front", "d_B_dtor", "d_B_front"}

\* The mapping as stated: the slots from front to tail of the blocks from
\* frontBlock to tailBlock hold live elements, the abstract sequence.
C28_AllLive ==
    Running => QueueSlots = [k \in 1..Len(Abs) |-> LiveSlot(Abs[k])]

\* The mapping, amended: as above, but the first of these slots is moved-from
\* or already destroyed, its value in the caller's result, while a
\* try_dequeue is between its move and its store of front.
C28_Mapping ==
    Running =>
        /\ Len(QueueSlots) = Len(Abs)
        /\ \A k \in 1..Len(Abs) :
              IF k = 1 /\ ConsMovedOut
              THEN /\ result = Abs[1]
                   /\ QueueSlots[1] \in {[st |-> "moved", v |-> Abs[1]], RawSlot}
              ELSE QueueSlots[k] = LiveSlot(Abs[k])
        /\ cons.pc = "idle" /\ cons.ret = "false" => hist.wasEmpty

\* The linearization points: a value is appended to the abstract sequence by
\* the tail store (case A) or tailBlock store (cases B, C) of the enqueue
\* that then returns true; its head is removed by the front store of the
\* try_dequeue that then returns it; no other step changes the sequence.
C28_LinStep ==
    /\ enqSeq' /= enqSeq =>
          /\ enqSeq' = Append(enqSeq, prod.elem) /\ deqSeq' = deqSeq
          /\ IF prod.pc = "e_A_tail" THEN tail' /= tail /\ tailBlock' = tailBlock
                                      ELSE tailBlock' /= tailBlock /\ tail' = tail
          /\ prod'.pc = "idle" /\ prod'.ret = "true"
    /\ deqSeq' /= deqSeq =>
          /\ Abs /= <<>> /\ deqSeq' = Append(deqSeq, Head(Abs)) /\ enqSeq' = enqSeq
          /\ front' /= front /\ result = Head(Abs)
          /\ cons'.pc = "idle" /\ cons'.ret = "true"
    /\ \/ Abs' = Abs
       \/ \E v \in 1..MaxCalls : Abs' = Append(Abs, v)
       \/ Abs /= <<>> /\ Abs' = Tail(Abs)

\* C28 as stated: the queue is linearizable with these linearization points,
\* and the abstract sequence always is the sequence of live elements of the
\* blocks from frontBlock to tailBlock.
C28_LinearizableAllLive ==
    /\ []C28_AllLive
    /\ [][C28_LinStep]_vars

\* C28, amended: the same, the element a try_dequeue is taking out counting
\* as part of the sequence until front is stored although it is no longer
\* live in its slot.
C28_Linearizable ==
    /\ []C28_Mapping
    /\ [][C28_LinStep]_vars

\* C28 witness: the abstract sequence spans two blocks, a try_dequeue has
\* destroyed the front element and not yet stored front, and an enqueue is
\* about to publish the next value by its tailBlock store.
C28_Witness ==
    /\ Running /\ cons.pc = "d_A_front" /\ prod.pc \in {"e_B_tailBlock", "e_C_tailBlock"}
    /\ frontBlock /= tailBlock /\ Len(Abs) >= 3
    /\ QueueSlots[1] = RawSlot

(* ------------------------------ C29 ------------------------------------ *)
\* The load bound R of the execution so far: the number of resident elements
\* has not exceeded hist.peak.
LargestAllowed == IF bsize[1] > 2 * (hist.peak + 1) THEN bsize[1]
                  ELSE 2 * (hist.peak + 1)

\* A step by which the producer leaves its tail block, or allocates, is taken
\* from a tail block of at most R + 1 slots.
C29_LeaveStep ==
    (tailBlock' /= tailBlock \/ nblocks' /= nblocks) =>
        bsize[tailBlock] <= hist.peak + 1

\* C29: while the number of resident elements has not exceeded R, no block
\* larger than max(initial block size, 2 * (R + 1)) is allocated, and the
\* producer neither leaves a block of more than R + 1 slots nor allocates
\* while it is in one.
C29_GrowthStops ==
    /\ [](\A b \in 1..nblocks : bsize[b] <= LargestAllowed)
    /\ [](prod.pc \in {"e_next", "e_B_load", "e_C_alloc"} =>
            bsize[prod.tailBlock_] <= prod.startCount + 1)
    /\ [][C29_LeaveStep]_vars

====
